---- MODULE Spec2Model ----
(***************************************************************************)
(* A model of gerry/data/us_census.py: the TIGER/Line shapefile cache      *)
(* (TigerShapefile), the survey cache (SurveyData), state resolution       *)
(* (_parse_state) and the three entry points get_block_groups,             *)
(* get_counties and get_tracts.                                            *)
(*                                                                         *)
(* Text is modelled by TLA+ strings, so paths, file names, URLs and GEOIDs *)
(* are built by the same concatenations as the f-strings of the source.    *)
(* A table (DataFrame / GeoDataFrame) is a sequence of rows, a row a       *)
(* record.  The filesystem is a set of directories and a map from file     *)
(* paths to contents.  The HTTP server and the survey API are the          *)
(* environment: each call takes the outcome of its request as an input.    *)
(***************************************************************************)
EXTENDS Integers, Sequences, FiniteSets, TLC

VARIABLES files, dirs, last, probe

vars == <<files, dirs, last, probe>>

(***************************************************************************)
(* Bounds of the model.                                                    *)
(***************************************************************************)
\* The longest table (in rows) the join specification draws.
MaxRows == 2

(***************************************************************************)
(* Text helpers: str.lower, str.upper, os.path.join, os.path.dirname.      *)
(***************************************************************************)
UpperAlpha == "ABCDEFGHIJKLMNOPQRSTUVWXYZ"
LowerAlpha == "abcdefghijklmnopqrstuvwxyz"

Chars == {SubSeq(UpperAlpha, i, i) : i \in 1..26} \cup
         {SubSeq(LowerAlpha, i, i) : i \in 1..26} \cup
         {"0", "1", "2", "3", "4", "5", "6", "7", "8", "9", "_", "/", ".", " "}

LowerMap == [c \in Chars |->
               IF \E i \in 1..26 : SubSeq(UpperAlpha, i, i) = c
               THEN LET i == CHOOSE j \in 1..26 : SubSeq(UpperAlpha, j, j) = c
                    IN SubSeq(LowerAlpha, i, i)
               ELSE c]

UpperMap == [c \in Chars |->
               IF \E i \in 1..26 : SubSeq(LowerAlpha, i, i) = c
               THEN LET i == CHOOSE j \in 1..26 : SubSeq(LowerAlpha, j, j) = c
                    IN SubSeq(UpperAlpha, i, i)
               ELSE c]

RECURSIVE Lower(_)
Lower(s) == IF s = "" THEN ""
            ELSE LowerMap[SubSeq(s, 1, 1)] \o Lower(SubSeq(s, 2, Len(s)))

RECURSIVE Upper(_)
Upper(s) == IF s = "" THEN ""
            ELSE UpperMap[SubSeq(s, 1, 1)] \o Upper(SubSeq(s, 2, Len(s)))

PathJoin(a, b) == a \o "/" \o b

RECURSIVE LastSlash(_, _)
LastSlash(p, i) == IF i = 0 THEN 0
                   ELSE IF SubSeq(p, i, i) = "/" THEN i
                   ELSE LastSlash(p, i - 1)

Dirname(p) == LET i == LastSlash(p, Len(p))
              IN IF i = 0 THEN "" ELSE SubSeq(p, 1, i - 1)

\* The directory d and every parent of it: what os.makedirs(d) creates.
RECURSIVE Ancestors(_)
Ancestors(d) == IF d = "" THEN {} ELSE {d} \cup Ancestors(Dirname(d))

\* os.path.dirname(__file__) joined with 'files', relative to the module.
FilesRoot == "files"

(***************************************************************************)
(* States (us.states.State) and _parse_state.                              *)
(***************************************************************************)
IA == [name |-> "Iowa", abbr |-> "IA", fips |-> "19"]
TX == [name |-> "Texas", abbr |-> "TX", fips |-> "48"]
STATES == {IA, TX}
NoState == [name |-> "", abbr |-> "", fips |-> ""]

\* A state argument is text, a State object, or a value of another type.
StrArg(s) == [type |-> "str", text |-> s, state |-> NoState]
StateArg(st) == [type |-> "State", text |-> "", state |-> st]
OtherArg == [type |-> "int", text |-> "", state |-> NoState]

\* us.states.lookup: by FIPS code, by abbreviation or by name; None if no match.
Lookup(text) ==
    LET m == {s \in STATES : \/ text = s.fips
                             \/ Upper(text) = s.abbr
                             \/ Lower(text) = Lower(s.name)}
    IN IF m = {} THEN NoState ELSE CHOOSE s \in m : TRUE

\* _parse_state without the check of the lookup's result: text that names no
\* state comes back as the lookup's None.
_parse_state_unchecked(arg) ==
    IF arg.type = "str"
    THEN [err |-> "none", state |-> Lookup(arg.text)]
    ELSE IF arg.type = "State"
    THEN [err |-> "none", state |-> arg.state]
    ELSE [err |-> "ValueError", state |-> NoState]

_parse_state(arg) ==
    IF arg.type = "str"
    THEN LET st == Lookup(arg.text)
         IN IF st = NoState THEN [err |-> "ValueError", state |-> NoState]
            ELSE [err |-> "none", state |-> st]
    ELSE IF arg.type = "State"
    THEN [err |-> "none", state |-> arg.state]
    ELSE [err |-> "ValueError", state |-> NoState]

(***************************************************************************)
(* The filesystem and the two remote services.                             *)
(***************************************************************************)
\* fsys is [files, dirs]: files maps a path to the contents written there.
FS(f, d) == [files |-> f, dirs |-> d]

\* os.path.exists
Exists(fsys, p) == p \in DOMAIN fsys.files \/ p \in fsys.dirs

\* os.makedirs
Makedirs(fsys, d) == FS(fsys.files, fsys.dirs \cup Ancestors(d))

\* open(p, 'wb') and write: the parent directory must exist.
CanCreate(fsys, p) == Dirname(p) \in fsys.dirs

WriteFile(fsys, p, content) ==
    FS((p :> content) @@ [q \in DOMAIN fsys.files \ {p} |-> fsys.files[q]],
       fsys.dirs)

\* The bytes of a shapefile archive holding table t, and of a pickle of t.
ZipOf(t) == [format |-> "zip", table |-> t]
PickleOf(t) == [format |-> "pkl", table |-> t]

\* The outcome of an HTTP GET: a response with a body, or a transport error.
NetOk(body) == [ok |-> TRUE, body |-> body]
NetFail == [ok |-> FALSE, body |-> ZipOf(<<>>)]

\* The outcome of a survey API query: the rows returned, or an error.
ApiOk(rows) == [ok |-> TRUE, rows |-> rows]
ApiFail == [ok |-> FALSE, rows |-> <<>>]

(***************************************************************************)
(* TigerShapefile                                                          *)
(***************************************************************************)
DefaultUsOnly == {"county"}

TigerShapefile(arg, geounit, year) ==
    LET p == _parse_state(arg)
    IN [err |-> p.err,
        state |-> p.state,
        geounit |-> Lower(geounit),
        year |-> year,
        us_only |-> DefaultUsOnly]

TigerShapefile_dir(sf) ==
    IF sf.geounit \notin sf.us_only
    THEN PathJoin(FilesRoot, sf.state.abbr)
    ELSE FilesRoot

\* A file name that leaves the year out.
TigerShapefile_filename_no_year(sf) ==
    IF sf.geounit \in sf.us_only
    THEN "tl_us_" \o Lower(sf.geounit) \o ".zip"
    ELSE "tl_" \o sf.state.fips \o "_" \o Lower(sf.geounit) \o ".zip"

TigerShapefile_filename(sf) ==
    IF sf.geounit \in sf.us_only
    THEN "tl_" \o ToString(sf.year) \o "_us_" \o Lower(sf.geounit) \o ".zip"
    ELSE "tl_" \o ToString(sf.year) \o "_" \o sf.state.fips \o "_"
              \o Lower(sf.geounit) \o ".zip"

TigerShapefile_filepath(sf) == PathJoin(TigerShapefile_dir(sf), TigerShapefile_filename(sf))

TigerShapefile_url(sf) ==
    "https://www2.census.gov/geo/tiger/TIGER" \o ToString(sf.year) \o "/"
        \o Upper(sf.geounit) \o "/" \o TigerShapefile_filename(sf)

\* The result of an operation on the caches: the filesystem it leaves, the
\* error it raised ("none": it returned), the URLs it requested in order,
\* the paths it wrote, whether it queried the survey API, and its value.
Outcome(fsys, err, requests, written, queried, value) ==
    [files |-> fsys.files, dirs |-> fsys.dirs, err |-> err,
     requests |-> requests, written |-> written, queried |-> queried,
     value |-> value]

\* TigerShapefile.download: GET, create the directory, write the body.
TigerShapefile_download(fsys, sf, net) ==
    IF ~net.ok
    THEN Outcome(fsys, "NetworkError", <<TigerShapefile_url(sf)>>, {}, FALSE, <<>>)
    ELSE LET made == IF ~Exists(fsys, TigerShapefile_dir(sf))
                     THEN Makedirs(fsys, TigerShapefile_dir(sf)) ELSE fsys
         IN Outcome(WriteFile(made, TigerShapefile_filepath(sf), net.body), "none",
                    <<TigerShapefile_url(sf)>>, {TigerShapefile_filepath(sf)}, FALSE, <<>>)

\* geopandas.read_file
ReadFile(fsys, p) ==
    IF p \in DOMAIN fsys.files /\ fsys.files[p].format = "zip"
    THEN [err |-> "none", table |-> fsys.files[p].table]
    ELSE [err |-> "ParseError", table |-> <<>>]

\* A load without the existence check: it downloads on every call.
TigerShapefile_load_always_downloads(fsys, sf, net) ==
    LET d == TigerShapefile_download(fsys, sf, net)
    IN IF d.err # "none" THEN d
       ELSE LET r == ReadFile(FS(d.files, d.dirs), TigerShapefile_filepath(sf))
            IN Outcome(FS(d.files, d.dirs), r.err, d.requests, d.written,
                       FALSE, r.table)

\* TigerShapefile.load: read the file if it exists, else download and load.
RECURSIVE TigerShapefile_load(_, _, _)
TigerShapefile_load(fsys, sf, net) ==
    IF Exists(fsys, TigerShapefile_filepath(sf))
    THEN LET r == ReadFile(fsys, TigerShapefile_filepath(sf))
         IN Outcome(fsys, r.err, <<>>, {}, FALSE, r.table)
    ELSE LET d == TigerShapefile_download(fsys, sf, net)
         IN IF d.err # "none" THEN d
            ELSE LET l == TigerShapefile_load(FS(d.files, d.dirs), sf, net)
                 IN [l EXCEPT !.requests = d.requests \o l.requests,
                              !.written = d.written \cup l.written]

(***************************************************************************)
(* SurveyData                                                              *)
(***************************************************************************)
SurveyData(survey, arg, geounit) ==
    LET p == _parse_state(arg)
    IN [err |-> p.err,
        state |-> p.state,
        dataset |-> survey.dataset,
        geounit |-> geounit]

SurveyData_dir(sd) == PathJoin(FilesRoot, sd.state.abbr)

SurveyData_filename(sd) ==
    sd.state.abbr \o "_" \o sd.dataset \o "_" \o sd.geounit \o ".pkl"

SurveyData_filepath(sd) == PathJoin(SurveyData_dir(sd), SurveyData_filename(sd))

\* An existence check of the directory instead of the file.
SurveyData_check_exists_of_dir(fsys, sd) ==
    IF Exists(fsys, SurveyData_dir(sd)) THEN TRUE ELSE FALSE

SurveyData_check_exists(fsys, sd) ==
    IF Exists(fsys, SurveyData_filepath(sd)) THEN TRUE ELSE FALSE

\* SurveyData.load: pandas.read_pickle
SurveyData_load(fsys, sd) ==
    LET p == SurveyData_filepath(sd)
    IN IF p \notin DOMAIN fsys.files
       THEN Outcome(fsys, "FileNotFoundError", <<>>, {}, FALSE, <<>>)
       ELSE IF fsys.files[p].format # "pkl"
       THEN Outcome(fsys, "UnpicklingError", <<>>, {}, FALSE, <<>>)
       ELSE Outcome(fsys, "none", <<>>, {}, FALSE, fsys.files[p].table)

\* SurveyData.save: df.to_pickle; the directory is not created.
SurveyData_save(fsys, sd, df) ==
    LET p == SurveyData_filepath(sd)
    IN IF ~CanCreate(fsys, p)
       THEN Outcome(fsys, "FileNotFoundError", <<>>, {}, FALSE, <<>>)
       ELSE Outcome(WriteFile(fsys, p, PickleOf(df)), "none", <<>>, {p},
                    FALSE, <<>>)

(***************************************************************************)
(* Tables: _merge_dataframe_shapefile and the GEOID column.                *)
(***************************************************************************)
BlockGroupKey(r) == r.state \o r.county \o r.tract \o r.blockgroup
\* The county key with its components in the wrong order.
CountyKeyReversed(r) == r.county \o r.state
CountyKey(r) == r.state \o r.county
TractKey(r) == r.state \o r.county \o r.tract

KeyOf(geounit, r) ==
    CASE geounit = "bg" -> BlockGroupKey(r)
      [] geounit = "county" -> CountyKey(r)
      [] geounit = "tract" -> TractKey(r)

\* The columns the GEOID line of each entry point reads.
KeyColumns(geounit) ==
    CASE geounit = "bg" -> {"state", "county", "tract", "blockgroup"}
      [] geounit = "county" -> {"state", "county"}
      [] geounit = "tract" -> {"state", "county", "tract"}

\* df[c] for each c of cols is defined: the table has rows and the columns.
HasColumns(df, cols) ==
    df # <<>> /\ \A i \in 1..Len(df) : cols \subseteq DOMAIN df[i]

\* df['GEOID'] = ... : the column is added to (or replaced in) every row.
SetGeoid(df, geounit) ==
    [i \in 1..Len(df) |->
        ("GEOID" :> KeyOf(geounit, df[i]))
            @@ [c \in DOMAIN df[i] \ {"GEOID"} |-> df[i][c]]]

\* The rows of df matching row g of the shapefile table, in df's order.
RECURSIVE MatchRow(_, _, _)
MatchRow(g, df, i) ==
    IF i > Len(df) THEN <<>>
    ELSE (IF df[i].GEOID = g.GEOID THEN <<g @@ df[i]>> ELSE <<>>)
         \o MatchRow(g, df, i + 1)

\* gdf.merge(df, on='GEOID'): the inner join, in the order of gdf's rows.
RECURSIVE MergeFrom(_, _, _)
MergeFrom(df, gdf, i) ==
    IF i > Len(gdf) THEN <<>>
    ELSE MatchRow(gdf[i], df, 1) \o MergeFrom(df, gdf, i + 1)

_merge_dataframe_shapefile(df, gdf) == MergeFrom(df, gdf, 1)

\* gdf.loc[gdf.STATEFP == str(state.fips), :]
RECURSIVE KeepState(_, _, _)
KeepState(gdf, fips, i) ==
    IF i > Len(gdf) THEN <<>>
    ELSE (IF gdf[i].STATEFP = fips THEN <<gdf[i]>> ELSE <<>>)
         \o KeepState(gdf, fips, i + 1)

\* No restriction of the national table.
CountyFilterNone(gdf, state) == gdf

CountyFilter(gdf, state) == KeepState(gdf, state.fips, 1)

(***************************************************************************)
(* The entry points.                                                       *)
(***************************************************************************)
\* The choice of source without the redownload flag: the cache is used
\* whenever it exists.
SurveyTableIgnoresRedownload(fsys, sd, redownload, save, api, g) ==
    IF SurveyData_check_exists(fsys, sd)
    THEN LET c == SurveyData_load(fsys, sd)
         IN Outcome(fsys, c.err, g.requests, g.written, FALSE, c.value)
    ELSE IF ~api.ok
    THEN Outcome(fsys, "ApiError", g.requests, g.written, TRUE, <<>>)
    ELSE IF save
    THEN LET s == SurveyData_save(fsys, sd, api.rows)
         IN Outcome(FS(s.files, s.dirs), s.err, g.requests,
                    g.written \cup s.written, TRUE, api.rows)
    ELSE Outcome(fsys, "none", g.requests, g.written, TRUE, api.rows)

\* The fresh answer saved whether or not save is true.
SurveyTableAlwaysSaves(fsys, sd, redownload, save, api, g) ==
    IF SurveyData_check_exists(fsys, sd) /\ ~redownload
    THEN LET c == SurveyData_load(fsys, sd)
         IN Outcome(fsys, c.err, g.requests, g.written, FALSE, c.value)
    ELSE IF ~api.ok
    THEN Outcome(fsys, "ApiError", g.requests, g.written, TRUE, <<>>)
    ELSE LET s == SurveyData_save(fsys, sd, api.rows)
         IN Outcome(FS(s.files, s.dirs), s.err, g.requests,
                    g.written \cup s.written, TRUE, api.rows)

\* The survey table of an entry point, after the shapefile load g: the
\* cached one if there is one and redownload is false, else the API's
\* answer, saved if save is true.
SurveyTable(fsys, sd, redownload, save, api, g) ==
    IF SurveyData_check_exists(fsys, sd) /\ ~redownload
    THEN LET c == SurveyData_load(fsys, sd)
         IN Outcome(fsys, c.err, g.requests, g.written, FALSE, c.value)
    ELSE IF ~api.ok
    THEN Outcome(fsys, "ApiError", g.requests, g.written, TRUE, <<>>)
    ELSE IF save
    THEN LET s == SurveyData_save(fsys, sd, api.rows)
         IN Outcome(FS(s.files, s.dirs), s.err, g.requests,
                    g.written \cup s.written, TRUE, api.rows)
    ELSE Outcome(fsys, "none", g.requests, g.written, TRUE, api.rows)

\* The last two lines of an entry point: the GEOID column, then the merge.
Merged(t, gdf, geounit) ==
    IF t.err # "none" THEN [t EXCEPT !.value = <<>>]
    ELSE IF ~HasColumns(t.value, KeyColumns(geounit))
    THEN [t EXCEPT !.err = "KeyError", !.value = <<>>]
    ELSE [t EXCEPT !.value =
              _merge_dataframe_shapefile(SetGeoid(t.value, geounit), gdf)]

get_block_groups(fsys, survey, arg, fields, year, redownload, save, net, api) ==
    LET sf == TigerShapefile(arg, "bg", year)
    IN IF sf.err # "none"
       THEN Outcome(fsys, sf.err, <<>>, {}, FALSE, <<>>)
       ELSE LET g == TigerShapefile_load(fsys, sf, net)
            IN IF g.err # "none" THEN g
               ELSE LET sd == SurveyData(survey, arg, "bg")
                    IN Merged(SurveyTable(FS(g.files, g.dirs), sd, redownload,
                                          save, api, g),
                              g.value, "bg")

get_counties(fsys, survey, arg, fields, year, redownload, save, net, api) ==
    LET p == _parse_state(arg)
    IN IF p.err # "none"
       THEN Outcome(fsys, p.err, <<>>, {}, FALSE, <<>>)
       ELSE LET state == p.state
                sf == TigerShapefile(StateArg(state), "county", year)
                g == TigerShapefile_load(fsys, sf, net)
            IN IF g.err # "none" THEN g
               ELSE LET gdf == CountyFilter(g.value, state)
                        sd == SurveyData(survey, StateArg(state), "county")
                    IN Merged(SurveyTable(FS(g.files, g.dirs), sd, redownload,
                                          save, api, g),
                              gdf, "county")

get_tracts(fsys, survey, arg, fields, year, redownload, save, net, api) ==
    LET sf == TigerShapefile(arg, "tract", year)
    IN IF sf.err # "none"
       THEN Outcome(fsys, sf.err, <<>>, {}, FALSE, <<>>)
       ELSE LET g == TigerShapefile_load(fsys, sf, net)
            IN IF g.err # "none" THEN g
               ELSE LET sd == SurveyData(survey, arg, "tract")
                    IN Merged(SurveyTable(FS(g.files, g.dirs), sd, redownload,
                                          save, api, g),
                              g.value, "tract")

(***************************************************************************)
(* The environment: what callers pass and what the services answer.        *)
(***************************************************************************)
StateArgs == {StrArg("Iowa"), StateArg(IA), StrArg("Narnia"), OtherArg}
GeoUnits == {"bg", "tract", "county"}
Years == {2020}
Fields == {"P1_001N", "P1_003N"}
Surveys == {[dataset |-> "pl"]}

ShapeRow(geoid, statefp) == [GEOID |-> geoid, STATEFP |-> statefp]

\* The national county file, and the per-state tract and block group files.
ServedTable(sf) ==
    IF sf.geounit \in sf.us_only
    THEN <<ShapeRow("19001", "19"), ShapeRow("48001", "48"),
           ShapeRow("19003", "19")>>
    ELSE IF sf.geounit = "tract"
    THEN <<ShapeRow(sf.state.fips \o "001" \o "000100", sf.state.fips),
           ShapeRow(sf.state.fips \o "003" \o "000200", sf.state.fips)>>
    ELSE <<ShapeRow(sf.state.fips \o "001" \o "000100" \o "1", sf.state.fips),
           ShapeRow(sf.state.fips \o "003" \o "000200" \o "1", sf.state.fips)>>

\* The server answers with the file, or the request fails.
NetOutcomes(sf) == {NetOk(ZipOf(ServedTable(sf))), NetFail}

\* The same, where the server may also answer with an older, shorter
\* edition of the file.
NetEditions(sf) ==
    NetOutcomes(sf) \cup {NetOk(ZipOf(SubSeq(ServedTable(sf), 1, 1)))}

SurveyRow(cols, field) == (field :> "100") @@ cols

\* The API answers a query for one state with the rows of its sub-units,
\* each holding the key components and the requested field.
ApiRows(geounit, fips, field) ==
    IF geounit = "county"
    THEN <<SurveyRow([state |-> fips, county |-> "001"], field),
           SurveyRow([state |-> fips, county |-> "005"], field)>>
    ELSE IF geounit = "tract"
    THEN <<SurveyRow([state |-> fips, county |-> "001", tract |-> "000100"],
                     field),
           SurveyRow([state |-> fips, county |-> "005", tract |-> "000300"],
                     field)>>
    ELSE <<SurveyRow([state |-> fips, county |-> "001", tract |-> "000100",
                      blockgroup |-> "1"], field),
           SurveyRow([state |-> fips, county |-> "005", tract |-> "000300",
                      blockgroup |-> "1"], field)>>

ApiOutcomes(geounit, arg, field) ==
    {ApiOk(ApiRows(geounit, _parse_state(arg).state.fips, field)), ApiFail}

(***************************************************************************)
(* The state machine.  Calls are synchronous and one at a time: a call     *)
(* runs to its end, `last` records it, and the caller takes the result     *)
(* (Return) before the next call.                                          *)
(***************************************************************************)
NoFiles == [p \in {} |-> ZipOf(<<>>)]

NoCall == [op |-> "none"]

\* The record of a call: its arguments, the API's answer it was given, the
\* filesystem before it, and what it did.
Call(op, arg, geounit, year, redownload, save, api, out) ==
    [op |-> op, arg |-> arg, geounit |-> geounit, year |-> year,
     redownload |-> redownload, save |-> save, api |-> api,
     pre |-> FS(files, dirs),
     err |-> out.err, requests |-> out.requests, written |-> out.written,
     queried |-> out.queried, value |-> out.value]

Do(op, arg, geounit, year, redownload, save, api, out) ==
    /\ files' = out.files
    /\ dirs' = out.dirs
    /\ last' = Call(op, arg, geounit, year, redownload, save, api, out)
    /\ UNCHANGED probe

\* A fresh cache: no file; the files directory may or may not exist yet.
Init ==
    /\ files = NoFiles
    /\ dirs \in {{}, {FilesRoot}}
    /\ last = NoCall
    /\ probe = NoCall

CallGetBlockGroups ==
    /\ last.op = "none"
    /\ \E survey \in Surveys, arg \in StateArgs, field \in Fields,
          year \in Years, redownload \in BOOLEAN, save \in BOOLEAN :
         \E net \in NetOutcomes(TigerShapefile(arg, "bg", year)),
            api \in ApiOutcomes("bg", arg, field) :
           Do("get_block_groups", arg, "bg", year, redownload, save, api,
              get_block_groups(FS(files, dirs), survey, arg, field, year,
                             redownload, save, net, api))

CallGetCounties ==
    /\ last.op = "none"
    /\ \E survey \in Surveys, arg \in StateArgs, field \in Fields,
          year \in Years, redownload \in BOOLEAN, save \in BOOLEAN :
         \E net \in NetOutcomes(TigerShapefile(arg, "county", year)),
            api \in ApiOutcomes("county", arg, field) :
           Do("get_counties", arg, "county", year, redownload, save, api,
              get_counties(FS(files, dirs), survey, arg, field, year,
                          redownload, save, net, api))

CallGetTracts ==
    /\ last.op = "none"
    /\ \E survey \in Surveys, arg \in StateArgs, field \in Fields,
          year \in Years, redownload \in BOOLEAN, save \in BOOLEAN :
         \E net \in NetOutcomes(TigerShapefile(arg, "tract", year)),
            api \in ApiOutcomes("tract", arg, field) :
           Do("get_tracts", arg, "tract", year, redownload, save, api,
              get_tracts(FS(files, dirs), survey, arg, field, year,
                        redownload, save, net, api))

\* TigerShapefile(state, geounit, year).download()
DownloadCall(fsys, arg, geounit, year, net) ==
    LET sf == TigerShapefile(arg, geounit, year)
    IN IF sf.err # "none"
       THEN Outcome(fsys, sf.err, <<>>, {}, FALSE, <<>>)
       ELSE TigerShapefile_download(fsys, sf, net)

\* TigerShapefile(state, geounit, year).load()
LoadCall(fsys, arg, geounit, year, net) ==
    LET sf == TigerShapefile(arg, geounit, year)
    IN IF sf.err # "none"
       THEN Outcome(fsys, sf.err, <<>>, {}, FALSE, <<>>)
       ELSE TigerShapefile_load(fsys, sf, net)

CallDownload ==
    /\ last.op = "none"
    /\ \E arg \in StateArgs, geounit \in GeoUnits, year \in Years :
         \E net \in NetOutcomes(TigerShapefile(arg, geounit, year)) :
           Do("download", arg, geounit, year, FALSE, FALSE, ApiFail,
              DownloadCall(FS(files, dirs), arg, geounit, year, net))

CallLoad ==
    /\ last.op = "none"
    /\ \E arg \in StateArgs, geounit \in GeoUnits, year \in Years :
         \E net \in NetOutcomes(TigerShapefile(arg, geounit, year)) :
           Do("load", arg, geounit, year, FALSE, FALSE, ApiFail,
              LoadCall(FS(files, dirs), arg, geounit, year, net))

\* SurveyData(survey, state, geounit).check_exists()
CheckExistsCall(fsys, survey, arg, geounit) ==
    LET sd == SurveyData(survey, arg, geounit)
    IN IF sd.err # "none"
       THEN Outcome(fsys, sd.err, <<>>, {}, FALSE, FALSE)
       ELSE Outcome(fsys, "none", <<>>, {}, FALSE, SurveyData_check_exists(fsys, sd))

\* SurveyData(survey, state, geounit).save(df)
SaveCall(fsys, survey, arg, geounit, df) ==
    LET sd == SurveyData(survey, arg, geounit)
    IN IF sd.err # "none"
       THEN Outcome(fsys, sd.err, <<>>, {}, FALSE, <<>>)
       ELSE SurveyData_save(fsys, sd, df)

CallCheckExists ==
    /\ last.op = "none"
    /\ \E survey \in Surveys, arg \in StateArgs, geounit \in GeoUnits :
         Do("check_exists", arg, geounit, 0, FALSE, FALSE, ApiFail,
            CheckExistsCall(FS(files, dirs), survey, arg, geounit))

CallSave ==
    /\ last.op = "none"
    /\ \E survey \in Surveys, arg \in StateArgs, geounit \in GeoUnits,
          field \in Fields :
         LET df == ApiRows(geounit, _parse_state(arg).state.fips, field)
         IN Do("save", arg, geounit, 0, FALSE, FALSE, ApiOk(df),
               SaveCall(FS(files, dirs), survey, arg, geounit, df))

\* The caller takes the result of the call.
Return ==
    /\ last.op # "none"
    /\ last' = NoCall
    /\ UNCHANGED <<files, dirs, probe>>

Next ==
    \/ CallGetBlockGroups
    \/ CallGetCounties
    \/ CallGetTracts
    \/ CallDownload
    \/ CallLoad
    \/ CallCheckExists
    \/ CallSave
    \/ Return

Spec == Init /\ [][Next]_vars

(***************************************************************************)
(* The shapefile cache alone, for two states, two years and geounit names  *)
(* in either case, against a server whose files change between requests.   *)
(***************************************************************************)
ShapeArgs == {StrArg("ia"), StateArg(IA), StateArg(TX), StrArg("Narnia")}
ShapeGeoUnits == {"bg", "BG", "county"}
ShapeYears == {2019, 2020}

ShapeDownload ==
    /\ last.op = "none"
    /\ \E arg \in ShapeArgs, geounit \in ShapeGeoUnits, year \in ShapeYears :
         \E net \in NetEditions(TigerShapefile(arg, geounit, year)) :
           Do("download", arg, geounit, year, FALSE, FALSE, ApiFail,
              DownloadCall(FS(files, dirs), arg, geounit, year, net))

ShapeLoad ==
    /\ last.op = "none"
    /\ \E arg \in ShapeArgs, geounit \in ShapeGeoUnits, year \in ShapeYears :
         \E net \in NetEditions(TigerShapefile(arg, geounit, year)) :
           Do("load", arg, geounit, year, FALSE, FALSE, ApiFail,
              LoadCall(FS(files, dirs), arg, geounit, year, net))

ShapeNext == ShapeDownload \/ ShapeLoad \/ Return

SpecShape == Init /\ [][ShapeNext]_vars

(***************************************************************************)
(* The path of a shapefile, as a function of the constructor's arguments.  *)
(***************************************************************************)
PathArgs == {StrArg("Iowa"), StateArg(IA), StrArg("tx"), StateArg(TX)}
PathGeoUnits == {"bg", "BG", "tract", "county", "COUNTY"}
PathYears == {2010, 2019, 2020}

\* Two TigerShapefile objects are built and their paths and URLs computed.
PathPair ==
    /\ probe.op = "none"
    /\ \E a1 \in PathArgs, a2 \in PathArgs, g1 \in PathGeoUnits,
          g2 \in PathGeoUnits, y1 \in PathYears, y2 \in PathYears :
         LET a == TigerShapefile(a1, g1, y1)
             b == TigerShapefile(a2, g2, y2)
         IN probe' = [op |-> "paths", a |-> a, b |-> b,
                      pa |-> TigerShapefile_filepath(a), pb |-> TigerShapefile_filepath(b),
                      ua |-> TigerShapefile_url(a), ub |-> TigerShapefile_url(b)]
    /\ UNCHANGED <<files, dirs, last>>

\* The two objects are dropped.
PathDrop ==
    /\ probe.op # "none"
    /\ probe' = NoCall
    /\ UNCHANGED <<files, dirs, last>>

PathNext == PathPair \/ PathDrop

SpecPath == Init /\ [][PathNext]_vars

(***************************************************************************)
(* The entry points on a cache that already holds the shapefiles of one    *)
(* geounit, with any small table in them, and any small answer of the API. *)
(***************************************************************************)
JoinArgs == {StateArg(IA), StrArg("TX")}
JoinFips == {"19", "48"}
JoinCounties == {"001", "005"}
JoinSurvey == [dataset |-> "pl"]
JoinField == "P1_001N"

\* All sequences of at most n elements of S.
RECURSIVE SeqsUpTo(_, _)
SeqsUpTo(S, n) ==
    IF n = 0 THEN {<<>>}
    ELSE LET shorter == SeqsUpTo(S, n - 1)
         IN shorter \cup {Append(t, x) : t \in shorter, x \in S}

\* The key components of a sub-unit at each granularity.
JoinUnits(geounit) ==
    IF geounit = "county"
    THEN {[state |-> s, county |-> c] : s \in JoinFips, c \in JoinCounties}
    ELSE IF geounit = "tract"
    THEN {[state |-> s, county |-> c, tract |-> "000100"] :
              s \in JoinFips, c \in JoinCounties}
    ELSE {[state |-> s, county |-> c, tract |-> "000100", blockgroup |-> "1"] :
              s \in JoinFips, c \in JoinCounties}

\* The GEOIDs a shapefile of the granularity may hold.
JoinGeoids(geounit) ==
    IF geounit = "county" THEN {"19001", "19003", "48001"}
    ELSE IF geounit = "tract" THEN {"19001000100", "19003000100", "48001000100"}
    ELSE {"190010001001", "190030001001", "480010001001"}

JoinShapeTables ==
    [geounit \in GeoUnits |->
        SeqsUpTo({ShapeRow(k, f) : k \in JoinGeoids(geounit), f \in JoinFips},
                 MaxRows)]

JoinSurveyTables ==
    [geounit \in GeoUnits |->
        SeqsUpTo({SurveyRow(u, JoinField) : u \in JoinUnits(geounit)},
                 MaxRows)]

\* The cache after the shapefiles of geounit were fetched for both states,
\* the server having answered with table t.
Fetched(geounit, t) ==
    LET paths == {TigerShapefile_filepath(TigerShapefile(StateArg(s), geounit, 2020)) :
                      s \in STATES}
    IN FS([p \in paths |-> ZipOf(t)],
          UNION {Ancestors(Dirname(p)) : p \in paths})

JoinInit ==
    /\ \E geounit \in GeoUnits :
         \E t \in JoinShapeTables[geounit] :
           /\ files = Fetched(geounit, t).files
           /\ dirs = Fetched(geounit, t).dirs
    /\ last = NoCall
    /\ probe = NoCall

JoinBlockGroups ==
    /\ last.op = "none"
    /\ \E arg \in JoinArgs, df \in JoinSurveyTables["bg"] :
         Do("get_block_groups", arg, "bg", 2020, TRUE, FALSE, ApiOk(df),
            get_block_groups(FS(files, dirs), JoinSurvey, arg, JoinField, 2020,
                           TRUE, FALSE, NetFail, ApiOk(df)))

JoinCountiesCall ==
    /\ last.op = "none"
    /\ \E arg \in JoinArgs, df \in JoinSurveyTables["county"] :
         Do("get_counties", arg, "county", 2020, TRUE, FALSE, ApiOk(df),
            get_counties(FS(files, dirs), JoinSurvey, arg, JoinField, 2020,
                        TRUE, FALSE, NetFail, ApiOk(df)))

JoinTracts ==
    /\ last.op = "none"
    /\ \E arg \in JoinArgs, df \in JoinSurveyTables["tract"] :
         Do("get_tracts", arg, "tract", 2020, TRUE, FALSE, ApiOk(df),
            get_tracts(FS(files, dirs), JoinSurvey, arg, JoinField, 2020,
                      TRUE, FALSE, NetFail, ApiOk(df)))

JoinNext == JoinBlockGroups \/ JoinCountiesCall \/ JoinTracts \/ Return

SpecJoin == JoinInit /\ [][JoinNext]_vars

(***************************************************************************)
(* What the claims are stated against: the state each argument names, and  *)
(* the layout of the cache as documented, written out independently of the *)
(* operators above.                                                        *)
(***************************************************************************)
EntryPoints == {"get_block_groups", "get_counties", "get_tracts"}

\* The state an argument names; NoState if it names none.
NamedState(arg) ==
    IF arg.type = "State" THEN arg.state
    ELSE IF arg.type = "str" /\ arg.text \in {"Iowa", "ia", "IA", "19"} THEN IA
    ELSE IF arg.type = "str" /\ arg.text \in {"Texas", "tx", "TX", "48"} THEN TX
    ELSE NoState

\* The geounit code a geounit argument stands for.
GeoCode(geounit) ==
    CASE geounit \in {"bg", "BG"} -> "bg"
      [] geounit \in {"tract", "TRACT"} -> "tract"
      [] geounit \in {"county", "COUNTY"} -> "county"

\* files/{state_abbr}/tl_{year}_{state_fips}_{geounit}.zip, or
\* files/tl_{year}_us_{geounit}.zip for the national county file.
LayoutShapePath(state, code, year) ==
    IF code = "county"
    THEN "files/tl_" \o ToString(year) \o "_us_county.zip"
    ELSE "files/" \o state.abbr \o "/tl_" \o ToString(year) \o "_"
             \o state.fips \o "_" \o code \o ".zip"

\* files/{state_abbr}/{state_abbr}_{dataset}_{geounit}.pkl
LayoutSurveyPath(state, dataset, code) ==
    "files/" \o state.abbr \o "/" \o state.abbr \o "_" \o dataset \o "_"
        \o code \o ".pkl"

\* The last call was made with a state argument that names a state.
Called == last.op # "none"
ValidCall == Called /\ NamedState(last.arg) # NoState

\* The shapefile path and the survey cache path of the last call.
LastShapePath ==
    LayoutShapePath(NamedState(last.arg), GeoCode(last.geounit), last.year)
LastSurveyPath ==
    LayoutSurveyPath(NamedState(last.arg), "pl", GeoCode(last.geounit))

(***************************************************************************)
(* C1  TigerShapefile.load, for every state, geounit and year: when no     *)
(* file is at the shapefile's path, load issues exactly one request, to    *)
(* the file's URL, and, the request answered, leaves the answer's body at  *)
(* the path; when a file is at the path, load issues no request and leaves *)
(* the cache as it was.  (A request that raises leaves no file; load then  *)
(* raises without a second request.)                                       *)
(***************************************************************************)
C1_LoadDownloadsOnce ==
    (ValidCall /\ last.op = "load") =>
        IF LastShapePath \in DOMAIN last.pre.files
        THEN /\ last.requests = <<>>
             /\ last.written = {}
             /\ files = last.pre.files
             /\ last.err = "none"
             /\ last.value = files[LastShapePath].table
        ELSE /\ Len(last.requests) = 1
             /\ last.err \in {"none", "NetworkError"}
             /\ last.err = "none" =>
                  /\ LastShapePath \in DOMAIN files
                  /\ last.written = {LastShapePath}
                  /\ last.value = files[LastShapePath].table
             /\ last.err = "NetworkError" => files = last.pre.files

\* A load that found the file a previous load had downloaded.
C1_Witness ==
    /\ ValidCall /\ last.op = "load"
    /\ LastShapePath \in DOMAIN last.pre.files
    /\ last.requests = <<>>
    /\ last.year = 2019
    /\ GeoCode(last.geounit) = "bg"

(***************************************************************************)
(* C2  In each entry point that gets as far as choosing the source of the  *)
(* survey table (the state resolved, the shapefile loaded), the survey API *)
(* is queried if and only if it is not the case that a survey cache entry  *)
(* exists for the key and redownload is false.  With redownload false and  *)
(* no entry the API is queried; with redownload false and an entry, the    *)
(* cached table is the one merged and the API is not queried.              *)
(***************************************************************************)
\* The call got past the state resolution and the shapefile load.
ReachedSurvey ==
    /\ ValidCall /\ last.op \in EntryPoints
    /\ last.err \notin {"ValueError", "NetworkError", "ParseError"}

CacheHit ==
    /\ LastSurveyPath \in DOMAIN last.pre.files
    /\ ~last.redownload

\* The columns of the rows of a table, other than those named.
OtherColumns(t, named) == UNION {DOMAIN t[i] : i \in 1..Len(t)} \ named

C2_QueriedIffNoUsableCache ==
    /\ ReachedSurvey => (last.queried <=> ~CacheHit)
    /\ (ReachedSurvey /\ CacheHit) =>
         /\ last.err = "none"
         /\ OtherColumns(last.value, {"GEOID", "STATEFP"}) \subseteq
              OtherColumns(last.pre.files[LastSurveyPath].table, {})
    /\ (ReachedSurvey /\ ~CacheHit /\ last.err = "none") =>
         OtherColumns(last.value, {"GEOID", "STATEFP"}) \subseteq
             OtherColumns(last.api.rows, {})
    /\ (Called /\ last.op \in EntryPoints /\ ~ReachedSurvey) => ~last.queried

\* A call with redownload false that found a table cached for another
\* field than the one it asked for, and merged the cached one.
C2_Witness ==
    /\ ReachedSurvey /\ CacheHit /\ ~last.queried
    /\ last.value # <<>>
    /\ last.api.ok
    /\ OtherColumns(last.value, {"GEOID", "STATEFP"}) #
           OtherColumns(last.api.rows, {})

(***************************************************************************)
(* C3  A call of an entry point with save true, from an empty cache, whose *)
(* shapefile download and survey query both succeed, completes without     *)
(* error and leaves a survey cache entry at the path of its key.           *)
(***************************************************************************)
C3_SaveFromEmptyCache ==
    ( /\ ValidCall /\ last.op \in EntryPoints
      /\ last.save
      /\ DOMAIN last.pre.files = {}
      /\ last.err \notin {"NetworkError", "ApiError"} ) =>
        /\ last.err = "none"
        /\ LastSurveyPath \in DOMAIN files

(***************************************************************************)
(* C4  SurveyData.check_exists returns whether a file is at the path of    *)
(* the key; in a cache that started empty a file comes to be there only by *)
(* a save for that key, so check_exists is false before any save, and      *)
(* after a save that returned the file is there and check_exists is true.  *)
(***************************************************************************)
IsPickle(fs, p) == p \in DOMAIN fs /\ fs[p].format = "pkl"

C4_ExistsIffSaved ==
    /\ (ValidCall /\ last.op = "check_exists") =>
         /\ last.err = "none"
         /\ last.value = (LastSurveyPath \in DOMAIN files)
    /\ (ValidCall /\ last.op = "save" /\ last.err = "none") =>
         /\ LastSurveyPath \in DOMAIN files
         /\ CheckExistsCall(FS(files, dirs), [dataset |-> "pl"], last.arg,
                            last.geounit).value = TRUE
    /\ Called =>
         \A p \in DOMAIN files \ DOMAIN last.pre.files :
            IsPickle(files, p) =>
              /\ p = LastSurveyPath
              /\ \/ last.op = "save"
                 \/ last.op \in EntryPoints /\ last.save

\* check_exists answered true: an earlier save had returned.
C4_Witness ==
    /\ ValidCall /\ last.op = "check_exists"
    /\ last.value = TRUE

(***************************************************************************)
(* C5  Every entry point and every operation on a TigerShapefile or a      *)
(* SurveyData built from a state argument that is text naming no state, or *)
(* that is neither text nor a State, fails with the invalid-state error    *)
(* (ValueError) having issued no request, queried no survey and created or *)
(* changed no file or directory.                                           *)
(***************************************************************************)
C5_InvalidStateFailsFast ==
    (Called /\ NamedState(last.arg) = NoState) =>
        /\ last.err = "ValueError"
        /\ last.requests = <<>>
        /\ ~last.queried
        /\ last.written = {}
        /\ files = last.pre.files
        /\ dirs = last.pre.dirs

\* An entry point refused a value that is neither text nor a State, on a
\* cache that would otherwise have needed a download.
C5_Witness ==
    /\ Called /\ last.op = "get_tracts"
    /\ last.arg.type = "int"
    /\ last.err = "ValueError"
    /\ DOMAIN files = {}

(***************************************************************************)
(* C6  The path of a shapefile is a function of the object's state,        *)
(* geounit and year, and is the documented one.  Two objects that differ   *)
(* in state, geounit or year have different paths, unless both are of the  *)
(* national unit (county): then the paths are equal exactly when the years *)
(* are, whatever the states.                                               *)
(***************************************************************************)
C6_PathInjective ==
    probe.op = "paths" =>
        LET a == probe.a
            b == probe.b
            same == a.state = b.state /\ a.geounit = b.geounit
                        /\ a.year = b.year
        IN /\ probe.pa = LayoutShapePath(a.state, a.geounit, a.year)
           /\ probe.pb = LayoutShapePath(b.state, b.geounit, b.year)
           /\ same => probe.pa = probe.pb
           /\ IF a.geounit = "county" /\ b.geounit = "county"
              THEN (probe.pa = probe.pb) <=> (a.year = b.year)
              ELSE (probe.pa = probe.pb) <=> same

\* The county files of two different states, of the same year, at one path.
C6_Witness ==
    /\ probe.op = "paths"
    /\ probe.a.state # probe.b.state
    /\ probe.a.year = probe.b.year
    /\ probe.pa = probe.pb

(***************************************************************************)
(* C7  The table an entry point returns is the inner join on GEOID of the  *)
(* shapefile table (for counties, its rows of the state) and the survey    *)
(* table, the survey GEOID being state + county (counties), state + county *)
(* + tract (tracts), state + county + tract + block group (block groups),  *)
(* with no separator: a GEOID is in the result if and only if it is in     *)
(* both tables, once for every pair of rows that carry it.                 *)
(***************************************************************************)
\* The GEOID of a survey row or result row at the granularity of the call.
ClaimedGeoid(r) ==
    CASE last.op = "get_counties" -> r.state \o r.county
      [] last.op = "get_tracts" -> r.state \o r.county \o r.tract
      [] last.op = "get_block_groups" ->
             r.state \o r.county \o r.tract \o r.blockgroup

\* The rows of the shapefile the last call read.
ShapeOnDisk == last.pre.files[LastShapePath].table

\* A returned entry-point call whose shapefile was cached and whose survey
\* table is the API's answer.
JoinedFresh ==
    /\ ValidCall /\ last.op \in EntryPoints /\ last.err = "none"
    /\ LastShapePath \in DOMAIN last.pre.files
    /\ last.queried

C7_InnerJoinOnGeoid ==
    JoinedFresh =>
        LET gdf == IF last.op = "get_counties"
                   THEN SelectSeq(ShapeOnDisk,
                            LAMBDA g : g.STATEFP = NamedState(last.arg).fips)
                   ELSE ShapeOnDisk
            df == last.api.rows
            res == last.value
            pairs == {<<i, k>> \in (1..Len(gdf)) \X (1..Len(df)) :
                          gdf[i].GEOID = ClaimedGeoid(df[k])}
        IN /\ {res[n].GEOID : n \in 1..Len(res)} =
                  {gdf[i].GEOID : i \in 1..Len(gdf)}
                      \cap {ClaimedGeoid(df[k]) : k \in 1..Len(df)}
           /\ Len(res) = Cardinality(pairs)
           /\ \A n \in 1..Len(res) : res[n].GEOID = ClaimedGeoid(res[n])

\* Shapefile GEOIDs 19001 and 19003, survey rows (19, 001) and (19, 005):
\* the result is the one row 19001.
C7_Witness ==
    /\ JoinedFresh /\ last.op = "get_counties"
    /\ ShapeOnDisk = <<ShapeRow("19001", "19"), ShapeRow("19003", "19")>>
    /\ Len(last.api.rows) = 2
    /\ last.api.rows[1].state = "19" /\ last.api.rows[1].county = "001"
    /\ last.api.rows[2].state = "19" /\ last.api.rows[2].county = "005"
    /\ Len(last.value) = 1
    /\ last.value[1].GEOID = "19001"

(***************************************************************************)
(* C8  get_counties joins only the rows of the national table whose        *)
(* STATEFP is the FIPS code of the resolved state: every row it returns    *)
(* has that STATEFP, and every such row of the table with a GEOID of the   *)
(* survey table is returned.  get_block_groups and get_tracts filter       *)
(* nothing: every row of the table with a GEOID of the survey table is     *)
(* returned, whatever its STATEFP.                                         *)
(***************************************************************************)
ShapePairs(t) == {<<t[i].GEOID, t[i].STATEFP>> : i \in 1..Len(t)}

SurveyGeoids == {ClaimedGeoid(last.api.rows[k]) : k \in 1..Len(last.api.rows)}

C8_CountyFilter ==
    JoinedFresh =>
        IF last.op = "get_counties"
        THEN /\ \A n \in 1..Len(last.value) :
                  last.value[n].STATEFP = NamedState(last.arg).fips
             /\ ShapePairs(last.value) =
                  {p \in ShapePairs(ShapeOnDisk) :
                       p[2] = NamedState(last.arg).fips /\ p[1] \in SurveyGeoids}
        ELSE ShapePairs(last.value) =
                  {p \in ShapePairs(ShapeOnDisk) : p[1] \in SurveyGeoids}

\* A county call that left out a row of another state although its GEOID
\* is one of the survey table.
C8_Witness ==
    /\ JoinedFresh /\ last.op = "get_counties"
    /\ last.value # <<>>
    /\ \E p \in ShapePairs(ShapeOnDisk) :
          /\ p[2] # NamedState(last.arg).fips
          /\ p[1] \in SurveyGeoids
          /\ p \notin ShapePairs(last.value)

(***************************************************************************)
(* C9  As claimed: over download, load and the entry points, once a file   *)
(* is at the path of a shapefile no request is issued for it and the file  *)
(* is not written again.                                                   *)
(***************************************************************************)
ShapeOps == EntryPoints \cup {"load", "download"}

IsZip(fs, p) == p \in DOMAIN fs /\ fs[p].format = "zip"

C9_NeverFetchedAgain ==
    ( /\ ValidCall /\ last.op \in ShapeOps
      /\ LastShapePath \in DOMAIN last.pre.files ) =>
        /\ last.requests = <<>>
        /\ LastShapePath \notin last.written
        /\ files[LastShapePath] = last.pre.files[LastShapePath]

(***************************************************************************)
(* C9, amended  Over load and the entry points, once a file is at the path *)
(* of a shapefile no request is issued for it and the file is not written  *)
(* again; with no file there, exactly one request is issued.  download     *)
(* itself checks nothing: every call of it issues one request and, the     *)
(* request answered, writes the body to the path, replacing a file that is *)
(* there.  No call touches the file of another shapefile.                  *)
(***************************************************************************)
C9_LoadNeverFetchesAgain ==
    /\ ( /\ ValidCall /\ last.op \in ShapeOps \ {"download"}
         /\ LastShapePath \in DOMAIN last.pre.files ) =>
           /\ last.requests = <<>>
           /\ LastShapePath \notin last.written
           /\ files[LastShapePath] = last.pre.files[LastShapePath]
    /\ ( /\ ValidCall /\ last.op \in ShapeOps \ {"download"}
         /\ LastShapePath \notin DOMAIN last.pre.files ) =>
           Len(last.requests) = 1
    /\ (ValidCall /\ last.op = "download") =>
           /\ Len(last.requests) = 1
           /\ last.err \in {"none", "NetworkError"}
           /\ last.err = "none" =>
                /\ LastShapePath \in last.written
                /\ IsZip(files, LastShapePath)
           /\ last.err = "NetworkError" => files = last.pre.files
    /\ (ValidCall /\ last.op \in ShapeOps) =>
           \A q \in DOMAIN last.pre.files :
              (IsZip(last.pre.files, q) /\ q # LastShapePath) =>
                 /\ q \notin last.written
                 /\ q \in DOMAIN files
                 /\ files[q] = last.pre.files[q]

\* A download that replaced a file that was there.
C9_Witness ==
    /\ ValidCall /\ last.op = "download"
    /\ LastShapePath \in DOMAIN last.pre.files
    /\ LastShapePath \in last.written
    /\ Len(last.requests) = 1

(***************************************************************************)
(* C10  An entry point creates or overwrites the survey cache entry of its *)
(* key only when it queried the API and save is true; on a cache hit, or   *)
(* with save false, the entry is as it was; the entries of all other keys  *)
(* are as they were; and what is stored is the API's answer as returned,   *)
(* without the GEOID column.  A call that returns having queried the API   *)
(* with save true has written the entry.                                   *)
(***************************************************************************)
\* The file at p is not what it was before the call.
Touched(p) ==
    \/ p \in last.written
    \/ (p \in DOMAIN files) # (p \in DOMAIN last.pre.files)
    \/ /\ p \in DOMAIN files /\ p \in DOMAIN last.pre.files
       /\ files[p] # last.pre.files[p]

C10_SurveyCacheFrame ==
    (Called /\ last.op \in EntryPoints) =>
        /\ \A p \in DOMAIN files \cup DOMAIN last.pre.files :
              ((IsPickle(files, p) \/ IsPickle(last.pre.files, p))
                  /\ Touched(p)) =>
                 /\ ValidCall
                 /\ p = LastSurveyPath
                 /\ last.queried /\ last.save
                 /\ files[p] = PickleOf(last.api.rows)
                 /\ \A i \in 1..Len(files[p].table) :
                       "GEOID" \notin DOMAIN files[p].table[i]
        /\ (ValidCall /\ last.queried /\ last.save /\ last.err = "none") =>
              /\ LastSurveyPath \in last.written
              /\ files[LastSurveyPath] = PickleOf(last.api.rows)

\* A call with save true that replaced the cached table of another field.
C10_Witness ==
    /\ ValidCall /\ last.op \in EntryPoints
    /\ last.queried /\ last.save /\ last.err = "none"
    /\ LastSurveyPath \in DOMAIN last.pre.files
    /\ files[LastSurveyPath] # last.pre.files[LastSurveyPath]

====
